---- MODULE Spec2Model ----
(***************************************************************************)
(* State-machine model of the MultiStepForm controller of src/script.js:   *)
(* step navigation, per-step validation, review projection, submission     *)
(* guard, error display with its auto-clear timers, and the in-memory      *)
(* autosave.  Every event handler of the script is one atomic action; the  *)
(* setTimeout callbacks it schedules are kept in queues and fire as        *)
(* separate actions, interleaved with user events.                         *)
(*                                                                         *)
(* Strings that the code inspects character by character (trim, length,    *)
(* the e-mail regular expression, substring) are sequences of one-         *)
(* character strings; the empty string is << >>.                           *)
(***************************************************************************)
EXTENDS Integers, Sequences, FiniteSets, TLC

VARIABLES
    currentStep,     \* this.currentStep
    fields,          \* value of each form control, by element id
    active,          \* step containers carrying the class 'active'
    navTimers,       \* pending 300 ms callbacks of hide/showCurrentStep, FIFO
    errorMsgs,       \* texts of the .error-message elements in the document,
                     \* newest first
    errTimers,       \* pending 5000 ms callbacks of showError, FIFO; TRUE = the
                     \* message created with the timer is still the one displayed
    activeBadges,    \* priority badges carrying the class 'active'
    review,          \* textContent of the review-* elements
    submitDisabled,  \* submitBtn.disabled
    handoffs,        \* submit events whose default action was not prevented
    successTimers,   \* pending 1000 ms callbacks of handleFormSubmission
    successMsgs,     \* .success-message elements inserted
    formDataBackup,  \* this.formDataBackup
    focusTextarea    \* document.activeElement.tagName = 'TEXTAREA'

vars == <<currentStep, fields, active, navTimers, errorMsgs, errTimers,
          activeBadges, review, submitDisabled, handoffs, successTimers,
          successMsgs, formDataBackup, focusTextarea>>

(***************************************************************************)
(* Program constants                                                       *)
(***************************************************************************)
totalSteps == 3

MinDescriptionLength == 10

ReviewMaxLength == 150

(***************************************************************************)
(* Bounds of the model                                                     *)
(***************************************************************************)
\* navigations whose hide/show timers may be pending together
MaxPendingNav == 2

\* showError auto-clear timers that may be pending together
MaxErrTimers == 2

\* submit events handed off in one session
MaxSubmits == 2

\* length of the descriptions that the truncation is applied to
MaxTextLen == 5

\* largest display length that the truncation is applied with
MaxLimit == 3

(***************************************************************************)
(* Strings                                                                 *)
(***************************************************************************)
Empty == << >>

Whitespace == {" "}

IsSpace(c) == c \in Whitespace

\* String.prototype.trim
RECURSIVE TrimLeft(_)
TrimLeft(s) ==
    IF s # Empty /\ IsSpace(Head(s)) THEN TrimLeft(Tail(s)) ELSE s

RECURSIVE TrimRight(_)
TrimRight(s) ==
    IF s # Empty /\ IsSpace(s[Len(s)])
    THEN TrimRight(SubSeq(s, 1, Len(s) - 1))
    ELSE s

Trim(s) == TrimRight(TrimLeft(s))

\* [^\s@]+ : a non-empty run without whitespace and without '@'
Segment(s) ==
    /\ s # Empty
    /\ \A i \in 1..Len(s) : ~IsSpace(s[i]) /\ s[i] # "@"

\* isValidEmail with the pattern /^[^\s@]+@[^\s@]+$/ (no dot required)
isValidEmailNoDot(email) ==
    \E i \in 1..Len(email) :
        /\ email[i] = "@"
        /\ Segment(SubSeq(email, 1, i - 1))
        /\ Segment(SubSeq(email, i + 1, Len(email)))

\* /^[^\s@]+@[^\s@]+\.[^\s@]+$/.test(email)
isValidEmail(email) ==
    \E i \in 1..Len(email), j \in 1..Len(email) :
        /\ i < j
        /\ email[i] = "@"
        /\ email[j] = "."
        /\ Segment(SubSeq(email, 1, i - 1))
        /\ Segment(SubSeq(email, i + 1, j - 1))
        /\ Segment(SubSeq(email, j + 1, Len(email)))

\* truncateText with text.length < length in place of <=
truncateTextStrict(text, length) ==
    IF Len(text) < length
    THEN text
    ELSE SubSeq(text, 1, length) \o <<".", ".", ".">>

\* text.length <= length ? text : text.substring(0, length) + '...'
truncateText(text, length) ==
    IF Len(text) <= length
    THEN text
    ELSE SubSeq(text, 1, length) \o <<".", ".", ".">>

(***************************************************************************)
(* Form controls                                                           *)
(***************************************************************************)
FieldIds == {"name", "email", "phone", "company", "recordType", "type",
             "reason", "priority", "subject", "description"}

\* the step container each control lives in
StepOf(id) == IF id \in {"name", "email", "phone", "company"} THEN 1 ELSE 2

\* data-value of the priority badges
BadgeValues == {<<"H">>, <<"L">>}

NoMsg == ""

MsgName == "Please enter your full name"

MsgEmail == "Please enter a valid email address"

MsgRecordType == "Please select a department category"

MsgType == "Please select a request type"

MsgReason == "Please select a specific issue"

MsgPriority == "Please select a priority level"

MsgSubject == "Please enter a subject for your request"

MsgDescription == "Please provide a detailed description (at least 10 characters)"

NotProvided == <<"Not provided">>

NotSelected == <<"Not selected">>

(***************************************************************************)
(* Validation                                                              *)
(***************************************************************************)
\* validateStep1 with the e-mail check placed before the name check
validateStep1ErrorEmailFirst(f) ==
    LET name == Trim(f["name"])
        email == Trim(f["email"])
    IN  IF email = Empty \/ ~isValidEmail(email) THEN MsgEmail
        ELSE IF name = Empty THEN MsgName
        ELSE NoMsg

\* validateStep1: the message of the first failing check, NoMsg when all pass
validateStep1Error(f) ==
    LET name == Trim(f["name"])
        email == Trim(f["email"])
    IN  IF name = Empty THEN MsgName
        ELSE IF email = Empty \/ ~isValidEmail(email) THEN MsgEmail
        ELSE NoMsg

validateStep1(f) == validateStep1Error(f) = NoMsg

\* validateStep2 with description.length <= 10 in place of < 10
validateStep2ErrorOffByOne(f) ==
    LET subject == Trim(f["subject"])
        description == Trim(f["description"])
    IN  IF f["recordType"] = Empty THEN MsgRecordType
        ELSE IF f["type"] = Empty THEN MsgType
        ELSE IF f["reason"] = Empty THEN MsgReason
        ELSE IF f["priority"] = Empty THEN MsgPriority
        ELSE IF subject = Empty THEN MsgSubject
        ELSE IF description = Empty \/ Len(description) <= MinDescriptionLength
             THEN MsgDescription
        ELSE NoMsg

\* validateStep2: the message of the first failing check, NoMsg when all pass
validateStep2Error(f) ==
    LET subject == Trim(f["subject"])
        description == Trim(f["description"])
    IN  IF f["recordType"] = Empty THEN MsgRecordType
        ELSE IF f["type"] = Empty THEN MsgType
        ELSE IF f["reason"] = Empty THEN MsgReason
        ELSE IF f["priority"] = Empty THEN MsgPriority
        ELSE IF subject = Empty THEN MsgSubject
        ELSE IF description = Empty \/ Len(description) < MinDescriptionLength
             THEN MsgDescription
        ELSE NoMsg

validateStep2(f) == validateStep2Error(f) = NoMsg

\* whether the control that a failed check focuses is the description textarea
FocusesTextarea(msg) == msg = MsgDescription

\* whether a failed check calls focus() at all (the priority check does not)
FocusesControl(msg) == msg \notin {NoMsg, MsgPriority}

\* the step container of the control a failed check focuses
FocusStep(msg) == IF msg \in {MsgName, MsgEmail} THEN 1 ELSE 2

(***************************************************************************)
(* Review projection                                                       *)
(***************************************************************************)
\* select.options[select.selectedIndex].text
getSelectText(value) ==
    IF value = Empty THEN Empty ELSE <<"label of">> \o value

OrElse(text, placeholder) == IF text = Empty THEN placeholder ELSE text

\* updateReview without the placeholder of the priority
updateReviewRawPriority(f) ==
    [name        |-> OrElse(f["name"], NotProvided),
     email       |-> OrElse(f["email"], NotProvided),
     phone       |-> OrElse(f["phone"], NotProvided),
     company     |-> OrElse(f["company"], NotProvided),
     recordType  |-> OrElse(getSelectText(f["recordType"]), NotSelected),
     type        |-> OrElse(getSelectText(f["type"]), NotSelected),
     reason      |-> OrElse(getSelectText(f["reason"]), NotSelected),
     priority    |-> f["priority"],
     subject     |-> OrElse(f["subject"], NotProvided),
     description |-> OrElse(truncateText(f["description"], ReviewMaxLength),
                            NotProvided)]

\* the textContent that updateReview writes to the review-* elements
updateReview(f) ==
    [name        |-> OrElse(f["name"], NotProvided),
     email       |-> OrElse(f["email"], NotProvided),
     phone       |-> OrElse(f["phone"], NotProvided),
     company     |-> OrElse(f["company"], NotProvided),
     recordType  |-> OrElse(getSelectText(f["recordType"]), NotSelected),
     type        |-> OrElse(getSelectText(f["type"]), NotSelected),
     reason      |-> OrElse(getSelectText(f["reason"]), NotSelected),
     priority    |-> OrElse(f["priority"], NotSelected),
     subject     |-> OrElse(f["subject"], NotProvided),
     description |-> OrElse(truncateText(f["description"], ReviewMaxLength),
                            NotProvided)]

\* the review-* elements before the first updateReview
NoReview == [id \in FieldIds |-> Empty]

\* saveFormData that reads the name control as empty
saveFormDataDropsName(f, step) ==
    [values |-> [f EXCEPT !["name"] = Empty], currentStep |-> step]

\* the snapshot saveFormData stores
saveFormData(f, step) == [values |-> f, currentStep |-> step]

\* this.formDataBackup = null (currentStep 0 marks null)
NoBackup == [values |-> [id \in FieldIds |-> Empty], currentStep |-> 0]

(***************************************************************************)
(* Values the user enters                                                  *)
(***************************************************************************)
Jane == <<"J">>

GoodEmail == <<"a", "@", "b", ".", "c">>

TenChars == <<"d", "e", "s", "c", "r", "i", "p", "t", "i", "o">>

\* what an input or change event may leave in the control with the given id
Dom(id) ==
    CASE id = "name"        -> {Empty, Jane}
      [] id = "email"       -> {Empty, GoodEmail}
      [] id = "phone"       -> {Empty}
      [] id = "company"     -> {Empty}
      [] id = "recordType"  -> {Empty, <<"R">>}
      [] id = "type"        -> {Empty, <<"T">>}
      [] id = "reason"      -> {Empty, <<"I">>}
      [] id = "subject"     -> {Empty, <<"s">>}
      [] id = "description" -> {Empty, TenChars}
      [] OTHER              -> {}

(***************************************************************************)
(* Initial state: the constructor, on a freshly loaded document            *)
(***************************************************************************)
Init ==
    /\ currentStep = 1
    /\ fields = [id \in FieldIds |-> Empty]
    /\ active = {1}
    /\ navTimers = << >>
    /\ errorMsgs = << >>
    /\ errTimers = << >>
    /\ activeBadges = {}
    /\ review = NoReview
    /\ submitDisabled = FALSE
    /\ handoffs = 0
    /\ successTimers = 0
    /\ successMsgs = 0
    /\ formDataBackup = NoBackup
    /\ focusTextarea = FALSE

(***************************************************************************)
(* Parts of handlers                                                       *)
(***************************************************************************)
Stale(timers) == [i \in 1..Len(timers) |-> FALSE]

\* clearErrors that leaves the .error-message elements in the document
clearErrorsKeeps == UNCHANGED <<errorMsgs, errTimers>>

\* clearErrors: every .error-message element is removed; timers stay pending
clearErrors ==
    /\ errorMsgs' = << >>
    /\ errTimers' = Stale(errTimers)

\* showError: clearErrors, then the new element goes into the first active
\* step's .form-section and its auto-clear timer is set.  With no active step
\* querySelector yields null and insertBefore throws: the handler ends there,
\* after clearErrors and before setTimeout.
showError(message) ==
    IF active = {}
    THEN clearErrors
    ELSE /\ Len(errTimers) < MaxErrTimers
         /\ errorMsgs' = <<message>>
         /\ errTimers' = Append(Stale(errTimers), TRUE)

\* whether showError(message) completes (does not throw)
Shows == active # {}

PendingNav == Cardinality({i \in 1..Len(navTimers) : navTimers[i][1] = "show"})

\* hideCurrentStep; currentStep +/- 1; showCurrentStep
Navigate(delta) ==
    /\ PendingNav < MaxPendingNav
    /\ navTimers' = navTimers \o << <<"hide", currentStep>>, <<"show", 0>> >>
    /\ currentStep' = currentStep + delta

\* nextStep without its currentStep < totalSteps test
nextStepUncapped == Navigate(1)

nextStep ==
    IF currentStep < totalSteps
    THEN Navigate(1)
    ELSE UNCHANGED <<currentStep, navTimers>>

\* prevStep without its currentStep > 1 test
prevStepUncapped == Navigate(-1)

prevStep ==
    IF currentStep > 1
    THEN Navigate(-1)
    ELSE UNCHANGED <<currentStep, navTimers>>

\* element.focus() in a failed check, `before` being the focus when the check
\* starts: focus() on a control of a hidden step does nothing, the priority
\* check focuses nothing, and a showError that throws ends the handler first
FocusAfterError(message, before) ==
    IF Shows /\ FocusesControl(message) /\ FocusStep(message) \in active
    THEN FocusesTextarea(message)
    ELSE before

(***************************************************************************)
(* Event handlers                                                          *)
(***************************************************************************)
\* the nextStep1 listener without its if: nextStep whatever validateStep1 says
ClickNextStep1Unguarded ==
    /\ 1 \in active
    /\ LET message == validateStep1Error(fields)
       IN  /\ IF message = NoMsg THEN clearErrors ELSE showError(message)
           /\ nextStep
           /\ focusTextarea' = FocusAfterError(message, FALSE)
    /\ UNCHANGED <<fields, active, activeBadges, review, submitDisabled,
                   handoffs, successTimers, successMsgs, formDataBackup>>

\* click on nextStep1 (shown with step 1): validateStep1, then nextStep
ClickNextStep1 ==
    /\ 1 \in active
    /\ LET message == validateStep1Error(fields)
       IN  IF message = NoMsg
           THEN /\ clearErrors
                /\ nextStep
                /\ focusTextarea' = FALSE
           ELSE /\ showError(message)
                /\ focusTextarea' = FocusAfterError(message, FALSE)
                /\ UNCHANGED <<currentStep, navTimers>>
    /\ UNCHANGED <<fields, active, activeBadges, review, submitDisabled,
                   handoffs, successTimers, successMsgs, formDataBackup>>

\* click on nextStep2 (shown with step 2): validateStep2, updateReview, nextStep
ClickNextStep2 ==
    /\ 2 \in active
    /\ LET message == validateStep2Error(fields)
       IN  IF message = NoMsg
           THEN /\ clearErrors
                /\ review' = updateReview(fields)
                /\ nextStep
                /\ focusTextarea' = FALSE
           ELSE /\ showError(message)
                /\ focusTextarea' = FocusAfterError(message, FALSE)
                /\ UNCHANGED <<currentStep, navTimers, review>>
    /\ UNCHANGED <<fields, active, activeBadges, submitDisabled,
                   handoffs, successTimers, successMsgs, formDataBackup>>

\* click on backStep2 (shown with step 2)
ClickBackStep2 ==
    /\ 2 \in active
    /\ prevStep
    /\ focusTextarea' = FALSE
    /\ UNCHANGED <<fields, active, errorMsgs, errTimers, activeBadges, review,
                   submitDisabled, handoffs, successTimers, successMsgs,
                   formDataBackup>>

\* click on backStep3 (shown with step 3)
ClickBackStep3 ==
    /\ 3 \in active
    /\ prevStep
    /\ focusTextarea' = FALSE
    /\ UNCHANGED <<fields, active, errorMsgs, errTimers, activeBadges, review,
                   submitDisabled, handoffs, successTimers, successMsgs,
                   formDataBackup>>

\* selectPriority that takes the selection back when the badge is active
selectPriorityToggle(value) ==
    IF value \in activeBadges
    THEN /\ activeBadges' = {}
         /\ fields' = [fields EXCEPT !["priority"] = Empty]
    ELSE /\ activeBadges' = {value}
         /\ fields' = [fields EXCEPT !["priority"] = value]

\* selectPriority(badge)
selectPriority(value) ==
    /\ activeBadges' = {value}
    /\ fields' = [fields EXCEPT !["priority"] = value]

\* click on a priority badge (shown with step 2)
ClickPriorityBadge(value) ==
    /\ 2 \in active
    /\ selectPriority(value)
    /\ focusTextarea' = FALSE
    /\ UNCHANGED <<currentStep, active, navTimers, errorMsgs, errTimers, review,
                   submitDisabled, handoffs, successTimers, successMsgs,
                   formDataBackup>>

\* handleFormSubmission without the return that follows showError
handleFormSubmissionNoReturn ==
    /\ IF fields["priority"] = Empty
       THEN showError(MsgPriority)
       ELSE UNCHANGED <<errorMsgs, errTimers>>
    /\ submitDisabled' = TRUE
    /\ handoffs' = IF fields["priority"] = Empty THEN handoffs ELSE handoffs + 1
    /\ successTimers' = successTimers + 1

\* handleFormSubmission without submitBtn.disabled = true
handleFormSubmissionNoDisable ==
    IF fields["priority"] = Empty
    THEN /\ showError(MsgPriority)
         /\ UNCHANGED <<submitDisabled, handoffs, successTimers>>
    ELSE /\ UNCHANGED submitDisabled
         /\ handoffs' = handoffs + 1
         /\ successTimers' = successTimers + 1
         /\ UNCHANGED <<errorMsgs, errTimers>>

\* handleFormSubmission(e)
handleFormSubmission ==
    IF fields["priority"] = Empty
    THEN /\ showError(MsgPriority)
         /\ UNCHANGED <<submitDisabled, handoffs, successTimers>>
    ELSE /\ submitDisabled' = TRUE
         /\ handoffs' = handoffs + 1
         /\ successTimers' = successTimers + 1
         /\ UNCHANGED <<errorMsgs, errTimers>>

\* submit event of caseForm, from a click on the enabled submit button
\* (shown with step 3)
SubmitForm ==
    /\ 3 \in active
    /\ ~submitDisabled
    /\ handoffs < MaxSubmits
    /\ handleFormSubmission
    /\ focusTextarea' = FALSE
    /\ UNCHANGED <<currentStep, fields, active, navTimers, activeBadges,
                   review, successMsgs, formDataBackup>>

\* input or change event on a shown control: handleInputChange
InputChange(id, value) ==
    /\ id # "priority"
    /\ StepOf(id) \in active
    /\ value # fields[id]
    /\ fields' = [fields EXCEPT ![id] = value]
    /\ clearErrors
    /\ focusTextarea' = (id = "description")
    /\ UNCHANGED <<currentStep, active, navTimers, activeBadges, review,
                   submitDisabled, handoffs, successTimers, successMsgs,
                   formDataBackup>>

\* handleKeyboardNavigation without its test of activeElement.tagName
KeyCtrlEnterAnyFocus ==
    /\ IF currentStep < totalSteps
       THEN LET message == IF currentStep = 1
                           THEN validateStep1Error(fields)
                           ELSE validateStep2Error(fields)
            IN  IF message = NoMsg
                THEN /\ clearErrors
                     /\ review' = IF currentStep = 2
                                  THEN updateReview(fields)
                                  ELSE review
                     /\ nextStep
                     /\ UNCHANGED focusTextarea
                ELSE /\ showError(message)
                     /\ focusTextarea' = FocusAfterError(message, focusTextarea)
                     /\ UNCHANGED <<currentStep, navTimers, review>>
       ELSE UNCHANGED <<currentStep, navTimers, review, errorMsgs, errTimers,
                        focusTextarea>>
    /\ UNCHANGED <<fields, active, activeBadges, submitDisabled, handoffs,
                   successTimers, successMsgs, formDataBackup>>

\* keydown Ctrl+Enter anywhere in the document: handleKeyboardNavigation
KeyCtrlEnter ==
    /\ IF currentStep < totalSteps /\ ~focusTextarea
       THEN LET message == IF currentStep = 1
                           THEN validateStep1Error(fields)
                           ELSE validateStep2Error(fields)
            IN  IF message = NoMsg
                THEN /\ clearErrors
                     /\ review' = IF currentStep = 2
                                  THEN updateReview(fields)
                                  ELSE review
                     /\ nextStep
                     /\ UNCHANGED focusTextarea
                ELSE /\ showError(message)
                     /\ focusTextarea' = FocusAfterError(message, focusTextarea)
                     /\ UNCHANGED <<currentStep, navTimers, review>>
       ELSE UNCHANGED <<currentStep, navTimers, review, errorMsgs, errTimers,
                        focusTextarea>>
    /\ UNCHANGED <<fields, active, activeBadges, submitDisabled, handoffs,
                   successTimers, successMsgs, formDataBackup>>

\* the user moves the focus into or out of the description textarea
FocusChange ==
    /\ focusTextarea \/ 2 \in active
    /\ focusTextarea' = ~focusTextarea
    /\ UNCHANGED <<currentStep, fields, active, navTimers, errorMsgs, errTimers,
                   activeBadges, review, submitDisabled, handoffs,
                   successTimers, successMsgs, formDataBackup>>

(***************************************************************************)
(* Timer callbacks                                                         *)
(***************************************************************************)
\* the 300 ms callbacks with hideCurrentStep's looking up step${currentStep}
\* when it runs instead of using the element it captured
NavTimerFireHidesCurrent ==
    /\ navTimers # << >>
    /\ LET timer == Head(navTimers)
       IN  IF timer[1] = "hide"
           THEN /\ active' = active \ {currentStep}
                /\ focusTextarea' = (focusTextarea /\ currentStep # 2)
           ELSE /\ active' = active \cup {currentStep}
                /\ UNCHANGED focusTextarea
    /\ navTimers' = Tail(navTimers)
    /\ UNCHANGED <<currentStep, fields, errorMsgs, errTimers, activeBadges,
                   review, submitDisabled, handoffs, successTimers,
                   successMsgs, formDataBackup>>

\* the oldest 300 ms callback: hideCurrentStep's removes 'active' from the
\* element it captured, showCurrentStep's adds it to step${currentStep}
NavTimerFire ==
    /\ navTimers # << >>
    /\ LET timer == Head(navTimers)
       IN  IF timer[1] = "hide"
           THEN /\ active' = active \ {timer[2]}
                /\ focusTextarea' = (focusTextarea /\ timer[2] # 2)
           ELSE /\ active' = active \cup {currentStep}
                /\ UNCHANGED focusTextarea
    /\ navTimers' = Tail(navTimers)
    /\ UNCHANGED <<currentStep, fields, errorMsgs, errTimers, activeBadges,
                   review, submitDisabled, handoffs, successTimers,
                   successMsgs, formDataBackup>>

\* the oldest 5000 ms callback of showError: clearErrors
ErrTimerFire ==
    /\ errTimers # << >>
    /\ errorMsgs' = << >>
    /\ errTimers' = Stale(Tail(errTimers))
    /\ UNCHANGED <<currentStep, fields, active, navTimers, activeBadges,
                   review, submitDisabled, handoffs, successTimers,
                   successMsgs, formDataBackup, focusTextarea>>

\* showSuccessMessage: insertBefore on the first active step; with none
\* active it throws and nothing is inserted
showSuccessMessage ==
    successMsgs' = IF active = {} THEN successMsgs ELSE successMsgs + 1

\* the 1000 ms callback of handleFormSubmission
SuccessTimerFire ==
    /\ successTimers > 0
    /\ successTimers' = successTimers - 1
    /\ showSuccessMessage
    /\ UNCHANGED <<currentStep, fields, active, navTimers, errorMsgs, errTimers,
                   activeBadges, review, submitDisabled, handoffs,
                   formDataBackup, focusTextarea>>

\* the 30 s interval callback, and visibilitychange with document.hidden
Autosave ==
    /\ formDataBackup' = saveFormData(fields, currentStep)
    /\ UNCHANGED <<currentStep, fields, active, navTimers, errorMsgs, errTimers,
                   activeBadges, review, submitDisabled, handoffs,
                   successTimers, successMsgs, focusTextarea>>

(***************************************************************************)
(* Specification                                                           *)
(***************************************************************************)
\* The input events explored: the user fills the controls of a step from the
\* top down and empties them from the bottom up, so the controls of a step
\* that hold text are always its first ones.
Above ==
    [email |-> "name", phone |-> "email", company |-> "phone",
     type |-> "recordType", reason |-> "type", subject |-> "reason",
     description |-> "subject"]

Below ==
    [name |-> "email", email |-> "phone", phone |-> "company",
     recordType |-> "type", type |-> "reason", reason |-> "subject",
     subject |-> "description"]

InOrder(id) ==
    /\ id \in DOMAIN Above => fields[Above[id]] # Empty
    /\ id \in DOMAIN Below => fields[Below[id]] = Empty

UserEvent ==
    \/ ClickNextStep1
    \/ ClickNextStep2
    \/ ClickBackStep2
    \/ ClickBackStep3
    \/ \E value \in BadgeValues : ClickPriorityBadge(value)
    \/ SubmitForm
    \/ \E id \in FieldIds : \E value \in Dom(id) :
           InOrder(id) /\ InputChange(id, value)
    \/ KeyCtrlEnter
    \/ FocusChange

TimerEvent ==
    \/ NavTimerFire
    \/ ErrTimerFire
    \/ SuccessTimerFire

Next == UserEvent \/ TimerEvent

Spec == Init /\ [][Next]_vars

(***************************************************************************)
(* The autosave beside navigation                                          *)
(*                                                                         *)
(* SpecSave adds the autosave to the navigation, validation and input       *)
(* events; it leaves out the priority badges and the submission, and the   *)
(* input events it explores are those of the controls in SaveIds.          *)
(***************************************************************************)
SaveIds == {"name", "email", "recordType", "type", "reason"}

NextSave ==
    \/ ClickNextStep1
    \/ ClickNextStep2
    \/ ClickBackStep2
    \/ ClickBackStep3
    \/ \E id \in SaveIds : \E value \in Dom(id) :
           InOrder(id) /\ InputChange(id, value)
    \/ KeyCtrlEnter
    \/ FocusChange
    \/ NavTimerFire
    \/ ErrTimerFire
    \/ Autosave

SpecSave == Init /\ [][NextSave]_vars

(***************************************************************************)
(* Events named by the properties                                          *)
(***************************************************************************)
\* a handler step in which validateStep1 runs
RunsValidateStep1 ==
    \/ ClickNextStep1
    \/ KeyCtrlEnter /\ currentStep = 1 /\ ~focusTextarea

\* a handler step in which validateStep2 runs
RunsValidateStep2 ==
    \/ ClickNextStep2
    \/ KeyCtrlEnter /\ currentStep = 2 /\ ~focusTextarea

\* a next-button click or a Ctrl+Enter
NextEvent == ClickNextStep1 \/ ClickNextStep2 \/ KeyCtrlEnter

BackEvent == ClickBackStep2 \/ ClickBackStep3

(***************************************************************************)
(* Navigation                                                              *)
(***************************************************************************)
\* C1: currentStep goes from 1 to 2 only in a handler step in which
\* validateStep1 runs and passes on the current field values, and from 2 to 3
\* only in one in which validateStep2 runs and passes.
C1_AdvanceOnlyAfterValidation ==
    [][ /\ (currentStep = 1 /\ currentStep' = 2) =>
             (RunsValidateStep1 /\ validateStep1(fields))
        /\ (currentStep = 2 /\ currentStep' = 3) =>
             (RunsValidateStep2 /\ validateStep2(fields)) ]_vars

\* C2: currentStep always lies in 1..totalSteps; a next event at the last step
\* leaves it at the last step and a back event at step 1 leaves it at 1.
C2_StepInRange ==
    /\ [](currentStep \in 1..totalSteps)
    /\ [][ /\ (NextEvent /\ currentStep = totalSteps) => currentStep' = totalSteps
           /\ (BackEvent /\ currentStep = 1) => currentStep' = 1 ]_vars

\* the nextStep2 button is still shown at the last step, with a form that
\* passes validateStep2: a click on it calls nextStep at the last step
C2_Witness ==
    /\ currentStep = totalSteps
    /\ 2 \in active
    /\ validateStep2(fields)

\* C3: every step that moves currentStep into the last step refreshes the
\* review, so that right after it the review is the projection of the field
\* values.
C3_ReviewOnEnteringLastStep ==
    [][ (currentStep # totalSteps /\ currentStep' = totalSteps) =>
            review' = updateReview(fields') ]_vars

(***************************************************************************)
(* Submission                                                              *)
(***************************************************************************)
\* C4: a submit event handled while priority is empty is aborted: no hand-off,
\* the priority message is shown, the button stays enabled, no success message
\* is scheduled, and currentStep and the field values are unchanged.
C4_SubmitGuard ==
    [][ (SubmitForm /\ fields["priority"] = Empty) =>
            /\ handoffs' = handoffs
            /\ errorMsgs' = <<MsgPriority>>
            /\ submitDisabled' = FALSE
            /\ successTimers' = successTimers
            /\ successMsgs' = successMsgs
            /\ currentStep' = currentStep
            /\ fields' = fields ]_vars

\* the priority message is displayed although the check of validateStep2 that
\* precedes its priority check would fail: it comes from the submit guard
C4_Witness ==
    /\ errorMsgs = <<MsgPriority>>
    /\ fields["recordType"] = Empty
    /\ fields["priority"] = Empty
    /\ 3 \in active
    /\ ~submitDisabled
    /\ handoffs = 0

\* C5: at most one submit event is handed off in a session, after it the
\* button is disabled, and at most one success message is scheduled and
\* inserted.
C5_SingleHandoff ==
    /\ handoffs <= 1
    /\ successTimers + successMsgs <= handoffs
    /\ submitDisabled <=> handoffs = 1

C5_Witness ==
    /\ handoffs = 1
    /\ submitDisabled
    /\ successMsgs = 1
    /\ 3 \in active

\* C6: a submit event is handed off only when currentStep is the last step.
C6_HandoffOnlyAtLastStep ==
    [][ handoffs' > handoffs => currentStep = totalSteps ]_vars

(***************************************************************************)
(* Validation on a range of forms                                          *)
(*                                                                         *)
(* SpecValidate starts from forms the user has typed (step 2 was filled on *)
(* an earlier visit, the user is back at step 1 and all timers have fired) *)
(* and runs the validating handlers on them.                               *)
(***************************************************************************)
JaneDoe == <<"J", " ", "D">>

NotAnEmail == <<"n", "o", "t">>

PaddedEmail == <<" ">> \o GoodEmail \o <<" ">>

Emails ==
    {Empty, GoodEmail, NotAnEmail, PaddedEmail,
     <<"a", "@", "b">>,
     <<"a", " ", "@", "b", ".", "c">>,
     <<"a", "@", "@", "b", ".", "c">>,
     <<"@", "b", ".", "c">>,
     <<"a", "@", ".", "c">>,
     <<"a", "@", "b", ".">>,
     <<"a", "@", "b", ".", "c", ".", "d">>}

NineChars == SubSeq(TenChars, 1, 9)

PaddedNine == <<" ">> \o NineChars \o <<" ">>

PaddedTen == <<" ">> \o TenChars

BlankTen == [i \in 1..10 |-> " "]

Descriptions == {Empty, NineChars, TenChars, PaddedNine, PaddedTen, BlankTen}

ValidForm ==
    [name |-> Jane, email |-> GoodEmail, phone |-> Empty, company |-> Empty,
     recordType |-> <<"R">>, type |-> <<"T">>, reason |-> <<"I">>,
     priority |-> <<"H">>, subject |-> <<"s">>, description |-> TenChars]

FormsValidate ==
    {[ValidForm EXCEPT !["name"] = n, !["email"] = e] :
        n \in {Empty, <<" ">>, Jane, JaneDoe}, e \in Emails}
    \cup
    {[ValidForm EXCEPT !["recordType"] = r, !["type"] = t, !["reason"] = i,
                       !["priority"] = p, !["subject"] = s,
                       !["description"] = d] :
        r \in {Empty, <<"R">>}, t \in {Empty, <<"T">>},
        i \in {Empty, <<"I">>}, p \in {Empty, <<"H">>},
        s \in {Empty, <<" ">>, <<"s">>}, d \in Descriptions}

InitValidate ==
    /\ currentStep = 1
    /\ fields \in FormsValidate
    /\ active = {1}
    /\ navTimers = << >>
    /\ errorMsgs = << >>
    /\ errTimers = << >>
    /\ activeBadges = IF fields["priority"] = Empty
                      THEN {}
                      ELSE {fields["priority"]}
    /\ review = NoReview
    /\ submitDisabled = FALSE
    /\ handoffs = 0
    /\ successTimers = 0
    /\ successMsgs = 0
    /\ formDataBackup = NoBackup
    /\ focusTextarea = FALSE

NextValidate ==
    \/ ClickNextStep1
    \/ ClickNextStep2
    \/ KeyCtrlEnter
    \/ NavTimerFire
    \/ ErrTimerFire

SpecValidate == InitValidate /\ [][NextValidate]_vars

(***************************************************************************)
(* What each check requires, stated on the characters of the value         *)
(***************************************************************************)
NonSpaces(s) == {i \in 1..Len(s) : ~IsSpace(s[i])}

Lowest(S) == CHOOSE x \in S : \A y \in S : x <= y

Highest(S) == CHOOSE x \in S : \A y \in S : x >= y

\* the value without its leading and trailing whitespace
Core(s) ==
    IF NonSpaces(s) = {}
    THEN Empty
    ELSE SubSeq(s, Lowest(NonSpaces(s)), Highest(NonSpaces(s)))

Occurrences(s, c) == {i \in 1..Len(s) : s[i] = c}

\* local@domain.tld: no whitespace, one '@' after a non-empty local part, and
\* behind it a '.' with at least one character on either side
EmailPattern(s) ==
    /\ NonSpaces(s) = 1..Len(s)
    /\ Cardinality(Occurrences(s, "@")) = 1
    /\ Lowest(Occurrences(s, "@")) > 1
    /\ \E q \in Occurrences(s, ".") :
           /\ q > Lowest(Occurrences(s, "@")) + 1
           /\ q < Len(s)

Order1 == <<"name", "email">>

Order2 == <<"recordType", "type", "reason", "priority", "subject", "description">>

MessageOf(id) ==
    CASE id = "name"        -> MsgName
      [] id = "email"       -> MsgEmail
      [] id = "recordType"  -> MsgRecordType
      [] id = "type"        -> MsgType
      [] id = "reason"      -> MsgReason
      [] id = "priority"    -> MsgPriority
      [] id = "subject"     -> MsgSubject
      [] id = "description" -> MsgDescription

\* the requirement on one control, whitespace around text not counting
FieldOk(id, f) ==
    CASE id = "email"       -> EmailPattern(Core(f[id]))
      [] id = "description" -> Len(Core(f[id])) >= MinDescriptionLength
      [] id \in {"name", "subject"} -> Core(f[id]) # Empty
      [] OTHER              -> f[id] # Empty

\* the requirement on one control as the specification words it: the value
\* as entered is non-empty, the e-mail matches, the description has 10 characters
FieldOkAsEntered(id, f) ==
    CASE id = "email"       -> f[id] # Empty /\ EmailPattern(f[id])
      [] id = "description" -> Len(f[id]) >= MinDescriptionLength
      [] OTHER              -> f[id] # Empty

Failing(order, f) == {i \in 1..Len(order) : ~FieldOk(order[i], f)}

FirstFailing(order, f) ==
    IF Failing(order, f) = {}
    THEN NoMsg
    ELSE MessageOf(order[Lowest(Failing(order, f))])

\* the handler step ends with no message displayed: its validateStep passed
Passed == errorMsgs' = << >>

\* C7 as stated: validateStep(n) is valid iff every required control of step
\* n is non-empty and, for step 1, the e-mail matches local@domain.tld.
C7_ValidIffRequiredNonEmpty ==
    [][ /\ ClickNextStep1 =>
             (Passed <=> /\ fields["name"] # Empty
                         /\ fields["email"] # Empty
                         /\ EmailPattern(fields["email"]))
        /\ ClickNextStep2 =>
             (Passed <=> \A i \in 1..Len(Order2) : fields[Order2[i]] # Empty)
      ]_vars

\* C7 amended: validateStep(n) is invalid whenever a required control of step
\* n is empty, and valid iff name and e-mail are non-empty after trimming and
\* the trimmed e-mail matches local@domain.tld (step 1), the three selects
\* and the priority are non-empty, the trimmed subject is non-empty and the
\* trimmed description has at least 10 characters (step 2).
C7_ValidIffRequiredOk ==
    [][ /\ ClickNextStep1 =>
             /\ Passed <=> \A i \in 1..Len(Order1) : FieldOk(Order1[i], fields)
             /\ (\E i \in 1..Len(Order1) : fields[Order1[i]] = Empty) => ~Passed
        /\ ClickNextStep2 =>
             /\ Passed <=> \A i \in 1..Len(Order2) : FieldOk(Order2[i], fields)
             /\ (\E i \in 1..Len(Order2) : fields[Order2[i]] = Empty) => ~Passed
      ]_vars

\* step 1 was passed with an e-mail that matches only once it is trimmed
C7_Witness ==
    /\ currentStep = 2
    /\ fields["email"] = PaddedEmail
    /\ errorMsgs = << >>
    /\ navTimers # << >>

\* C8 as stated: validateStep(2) succeeds exactly when the selects and the
\* priority are non-empty, the subject is non-empty and the description as
\* entered has at least 10 characters.
C8_Step2IffTenCharsEntered ==
    [][ (RunsValidateStep2 /\ active # {}) =>
            (Passed <=>
                \A i \in 1..Len(Order2) : FieldOkAsEntered(Order2[i], fields))
      ]_vars

\* C8 amended: validateStep(2) succeeds exactly when the selects and the
\* priority are non-empty, the subject is non-empty after trimming and the
\* description has at least 10 characters after trimming; a trimmed
\* description of exactly 10 characters is accepted, one of 9 is rejected.
C8_Step2IffTenCharsTrimmed ==
    [][ (RunsValidateStep2 /\ active # {}) =>
            LET others == \A i \in 1..Len(Order2) :
                             Order2[i] = "description" \/ FieldOk(Order2[i], fields)
                length == Len(Core(fields["description"]))
            IN  /\ Passed <=> (others /\ length >= MinDescriptionLength)
                /\ (others /\ length = MinDescriptionLength) => Passed
                /\ length = MinDescriptionLength - 1 => ~Passed
      ]_vars

\* a description of 11 characters as entered, 9 once trimmed, was rejected
C8_Witness ==
    /\ fields["description"] = PaddedNine
    /\ errorMsgs = <<MsgDescription>>
    /\ currentStep = 2

FailedValidation ==
    \/ RunsValidateStep1 /\ ~validateStep1(fields)
    \/ RunsValidateStep2 /\ ~validateStep2(fields)

\* nothing but the error display (and the focus) changes
OnlyErrorDisplayChanges ==
    UNCHANGED <<currentStep, fields, active, navTimers, activeBadges, review,
                submitDisabled, handoffs, successTimers, successMsgs,
                formDataBackup>>

\* validateStep(n) passed and nextStep ran
Advanced ==
    /\ errorMsgs' = << >>
    /\ currentStep' = IF currentStep < totalSteps
                      THEN currentStep + 1
                      ELSE currentStep

\* the model lets a navigation start (MaxPendingNav is not exhausted)
CanNavigate == currentStep = totalSteps \/ PendingNav < MaxPendingNav

\* a click on a shown next button, on values that pass the validation of its
\* step, advances
ClickRetrySucceeds ==
    /\ (1 \in active /\ validateStep1(fields) /\ CanNavigate) =>
           ENABLED (ClickNextStep1 /\ Advanced)
    /\ (2 \in active /\ validateStep2(fields) /\ CanNavigate) =>
           ENABLED (ClickNextStep2 /\ Advanced)

\* the values pass the validation of the step named by currentStep
CurrentStepValid ==
    \/ currentStep = 1 /\ validateStep1(fields)
    \/ currentStep = 2 /\ validateStep2(fields)

Controller ==
    <<currentStep, fields, active, navTimers, errorMsgs, errTimers,
      activeBadges, review, submitDisabled, handoffs, successTimers,
      successMsgs, formDataBackup>>

\* C11: a back event at step 2 or 3 decrements currentStep by exactly 1
\* whatever the field values are and shows no message; a back button that is
\* shown can always be used; and a back event at step 1 changes nothing of
\* the controller state (step, values, messages, pending timers).
C11_RetreatUnguarded ==
    /\ [][ BackEvent =>
             /\ currentStep' = IF currentStep > 1
                               THEN currentStep - 1
                               ELSE currentStep
             /\ UNCHANGED <<fields, errorMsgs, errTimers>> ]_vars
    /\ [](/\ (currentStep > 1 /\ 2 \in active /\ PendingNav < MaxPendingNav) =>
                 ENABLED (ClickBackStep2 /\ currentStep' = currentStep - 1)
          /\ (currentStep > 1 /\ 3 \in active /\ PendingNav < MaxPendingNav) =>
                 ENABLED (ClickBackStep3 /\ currentStep' = currentStep - 1)
          /\ currentStep = 1 =>
                 ~ENABLED (BackEvent /\ Controller' # Controller))

\* two retreats from step 3 (a double click on backStep3) have led to step 1
\* although step 2 does not validate, and the back button is still shown
C11_Witness ==
    /\ currentStep = 1
    /\ Len(navTimers) = 4
    /\ navTimers[1] = <<"hide", 3>>
    /\ navTimers[3] = <<"hide", 2>>
    /\ 3 \in active
    /\ ~validateStep2(fields)

(***************************************************************************)
(* Error messages and their auto-clear timers                              *)
(*                                                                         *)
(* SpecError runs the handlers that show or clear a message (validation,   *)
(* submission guard, input events on the contact controls) with the timer  *)
(* callbacks; a pending setTimeout callback is eventually run.             *)
(***************************************************************************)
ErrorIds == {"name", "email"}

NextError ==
    \/ ClickNextStep1
    \/ ClickNextStep2
    \/ ClickBackStep2
    \/ ClickBackStep3
    \/ SubmitForm
    \/ \E id \in ErrorIds : \E value \in Dom(id) :
           InOrder(id) /\ InputChange(id, value)
    \/ KeyCtrlEnter
    \/ NavTimerFire
    \/ ErrTimerFire

SpecError == Init /\ [][NextError]_vars /\ WF_vars(ErrTimerFire)

\* a handler step in which validateStep(n) runs and passes
PassedValidation ==
    \/ RunsValidateStep1 /\ validateStep1(fields)
    \/ RunsValidateStep2 /\ validateStep2(fields)

AnyInputChange == \E id \in FieldIds : \E value \in Dom(id) : InputChange(id, value)

\* C12: every message shown is eventually cleared: while it is displayed its
\* own auto-clear timer is pending, the firing of that timer removes it, and
\* so do an input/change event and a validation that passes, after each of
\* which no message is displayed.
C12_MessageEventuallyCleared ==
    /\ (errorMsgs # << >>) ~> (errorMsgs = << >>)
    /\ [](errorMsgs # << >> =>
              /\ Len(errorMsgs) = 1
              /\ errTimers # << >>
              /\ errTimers[Len(errTimers)])
    /\ [][ (ErrTimerFire \/ AnyInputChange \/ PassedValidation) =>
               errorMsgs' = << >> ]_vars

\* the message of a failed validation was removed by an input event while its
\* auto-clear timer is still pending
C12_Witness ==
    /\ errorMsgs = << >>
    /\ errTimers = <<FALSE>>
    /\ fields["name"] # Empty
    /\ fields["email"] = Empty
    /\ currentStep = 1

(***************************************************************************)
(* Review projection and truncation on a range of forms                    *)
(*                                                                         *)
(* SpecReview starts from forms with any of the controls empty and any     *)
(* short description, at any step, with or without a displayed message and *)
(* a backup, and applies updateReview and truncateText to them.            *)
(***************************************************************************)
Alphabet == {"a", "."}

Texts == UNION {[1..n -> Alphabet] : n \in 0..MaxTextLen}

Limits == 0..MaxLimit

\* a description longer than the display length of the review
LongText == [i \in 1..ReviewMaxLength + 1 |-> "a"]

FormsReview ==
    {[id \in FieldIds |-> IF id \in filled THEN ValidForm[id] ELSE Empty] :
        filled \in SUBSET FieldIds}
    \cup
    {[ValidForm EXCEPT !["description"] = t] : t \in Texts \cup {LongText}}

InitReview ==
    /\ currentStep \in 1..totalSteps
    /\ fields \in FormsReview
    /\ active = {currentStep}
    /\ navTimers = << >>
    /\ errorMsgs \in {<< >>, <<MsgPriority>>}
    /\ errTimers = IF errorMsgs = << >> THEN << >> ELSE <<TRUE>>
    /\ activeBadges = IF fields["priority"] = Empty
                      THEN {}
                      ELSE {fields["priority"]}
    /\ review = NoReview
    /\ submitDisabled = FALSE
    /\ handoffs = 0
    /\ successTimers = 0
    /\ successMsgs = 0
    /\ formDataBackup \in {NoBackup, saveFormData(fields, currentStep)}
    /\ focusTextarea = FALSE

\* a call of updateReview
ProjectReview ==
    /\ review' = updateReview(fields)
    /\ UNCHANGED <<currentStep, fields, active, navTimers, errorMsgs, errTimers,
                   activeBadges, submitDisabled, handoffs, successTimers,
                   successMsgs, formDataBackup, focusTextarea>>

\* review-description.textContent = truncateText(description.value, length)
TruncateDescription(length) ==
    /\ review' = [review EXCEPT
                     !.description = truncateText(fields["description"], length)]
    /\ UNCHANGED <<currentStep, fields, active, navTimers, errorMsgs, errTimers,
                   activeBadges, submitDisabled, handoffs, successTimers,
                   successMsgs, formDataBackup, focusTextarea>>

NextReview ==
    \/ ProjectReview
    \/ \E length \in Limits : TruncateDescription(length)

SpecReview == InitReview /\ [][NextReview]_vars

\* C13: truncateText(s, L) is s when s has at most L characters, otherwise
\* the first L characters of s followed by '...'; truncating the result again
\* with the same L leaves it as it is.
C13_TruncationLaw ==
    [][ \A length \in Limits :
          TruncateDescription(length) =>
            LET s == fields["description"]
                r == review'.description
            IN  /\ Len(s) <= length => r = s
                /\ Len(s) > length =>
                      /\ Len(r) = length + 3
                      /\ \A i \in 1..length : r[i] = s[i]
                      /\ \A i \in length + 1..length + 3 : r[i] = "."
                /\ truncateText(r, length) = r ]_vars

\* a description of four characters was cut to its first one and the marker,
\* a result that is itself longer than the display length
C13_Witness ==
    /\ fields["description"] = <<"a", ".", "a", "a">>
    /\ review.description = <<"a", ".", ".", ".">>

\* the controls whose value is shown as typed
TextIds == {"name", "email", "phone", "company", "subject"}

SelectIds == {"recordType", "type", "reason"}

\* what the review shows for one control, from the field values alone
Rendered(id, f) ==
    CASE id \in TextIds ->
             IF f[id] = Empty THEN NotProvided ELSE f[id]
      [] id \in SelectIds ->
             IF getSelectText(f[id]) = Empty
             THEN NotSelected
             ELSE getSelectText(f[id])
      [] id = "priority" ->
             IF f[id] = Empty THEN NotSelected ELSE f[id]
      [] id = "description" ->
             IF f[id] = Empty THEN NotProvided
             ELSE IF Len(f[id]) <= ReviewMaxLength THEN f[id]
             ELSE SubSeq(f[id], 1, ReviewMaxLength) \o <<".", ".", ".">>

\* C14: updateReview yields a snapshot that is determined by the field values
\* alone, whatever currentStep, the timers, the displayed messages and the
\* backup are, with 'Not provided' for an empty text control and 'Not
\* selected' for an empty priority, and it changes neither currentStep nor
\* the field values nor the priority.
C14_ReviewPureProjection ==
    [][ ProjectReview =>
          /\ \A id \in FieldIds : review'[id] = Rendered(id, fields)
          /\ UNCHANGED <<currentStep, fields, activeBadges, errorMsgs,
                         errTimers, navTimers, formDataBackup>> ]_vars

\* a review of a form without name and priority, projected at step 3 while a
\* message is displayed and a backup exists
C14_Witness ==
    /\ review.name = NotProvided
    /\ review.priority = NotSelected
    /\ review.email = GoodEmail
    /\ currentStep = 3
    /\ errorMsgs # << >>
    /\ formDataBackup # NoBackup

(***************************************************************************)
(* Priority                                                                *)
(***************************************************************************)
\* C15: a click on a priority badge sets the priority to the badge's level
\* and makes that badge the only active one; a second click on the same
\* badge changes neither; and the priority, once set, stays one of the badge
\* levels whatever happens afterwards.
C15_SelectPriorityIdempotent ==
    /\ [][ \A value \in BadgeValues :
              ClickPriorityBadge(value) =>
                  /\ fields'["priority"] = value
                  /\ activeBadges' = {value} ]_vars
    /\ [](\A value \in BadgeValues :
              (fields["priority"] = value /\ activeBadges = {value}) =>
                  ~ENABLED (/\ ClickPriorityBadge(value)
                            /\ <<fields, activeBadges>>' # <<fields, activeBadges>>))
    /\ [](/\ fields["priority"] \in BadgeValues \cup {Empty}
          /\ activeBadges = IF fields["priority"] = Empty
                            THEN {}
                            ELSE {fields["priority"]})
    /\ [][ fields["priority"] # Empty =>
              fields'["priority"] \in BadgeValues ]_vars

\* the priority selected at step 2 is still set at step 3, where the badge
\* can be clicked again while step 2 is shown
C15_Witness ==
    /\ fields["priority"] = <<"L">>
    /\ activeBadges = {<<"L">>}
    /\ currentStep = 3
    /\ 2 \in active

(***************************************************************************)
(* Autosave                                                                *)
(***************************************************************************)
\* C16: an autosave stores a snapshot whose ten entries and currentStep are
\* the control values and the step at the instant it runs, and leaves step,
\* values, priority, review and messages as they are; whenever the backup
\* changes it is the snapshot of one single state of the form.
C16_AutosaveSnapshot ==
    /\ [][ Autosave =>
              /\ \A id \in FieldIds : formDataBackup'.values[id] = fields[id]
              /\ formDataBackup'.currentStep = currentStep
              /\ UNCHANGED <<currentStep, fields, active, navTimers, errorMsgs,
                             errTimers, activeBadges, review>> ]_vars
    /\ [][ formDataBackup' # formDataBackup =>
              /\ \A id \in FieldIds : formDataBackup'.values[id] = fields'[id]
              /\ formDataBackup'.currentStep = currentStep' ]_vars

\* an autosave has run between a navigation to step 2 and the firing of its
\* timers, while a message of an earlier validation was displayed
C16_Witness ==
    /\ formDataBackup.currentStep = 2
    /\ formDataBackup.values = fields
    /\ currentStep = 2
    /\ navTimers # << >>
    /\ fields["email"] = GoodEmail
    /\ errTimers # << >>

(***************************************************************************)
(* Displayed step                                                          *)
(***************************************************************************)
\* C17: whenever no hide or show callback is pending, exactly one step
\* container carries 'active', the one of step currentStep.
C17_DisplayedStepAtQuiescence ==
    navTimers = << >> => active = {currentStep}

\* step 3 alone is displayed and nothing is pending, although step 2 does not
\* validate: the second navigation started before the callbacks of the first
\* had run
C17_Witness ==
    /\ navTimers = << >>
    /\ active = {3}
    /\ currentStep = 3
    /\ ~validateStep2(fields)

(***************************************************************************)
(* Auto-clear timers of earlier messages                                   *)
(***************************************************************************)
\* C18: a displayed message is removed only by the callback of its own
\* auto-clear timer, by an input/change event, by a validation that passes
\* or by a newer showError that puts its message in its place; the callback
\* of the timer of an earlier message never removes it.
C18_OwnTimerOnly ==
    [][ (errorMsgs # << >> /\ errorMsgs' # errorMsgs) =>
            \/ ErrTimerFire /\ Head(errTimers)
            \/ AnyInputChange
            \/ PassedValidation
            \/ errorMsgs' # << >> ]_vars

(***************************************************************************)
(* Keyboard navigation                                                     *)
(***************************************************************************)
\* C19: a Ctrl+Enter changes currentStep only by +1 and only where the
\* controls of the step named by currentStep meet their requirements (at
\* step 2 the review is then refreshed); it hands off no submission; and at
\* the last step or with the focus in a textarea it changes nothing at all.
C19_KeyboardNavigation ==
    /\ [][ KeyCtrlEnter =>
              /\ currentStep' \in {currentStep, currentStep + 1}
              /\ (currentStep = 1 /\ currentStep' # currentStep) =>
                     \A i \in 1..Len(Order1) : FieldOk(Order1[i], fields)
              /\ (currentStep = 2 /\ currentStep' # currentStep) =>
                     /\ \A i \in 1..Len(Order2) : FieldOk(Order2[i], fields)
                     /\ \A id \in FieldIds : review'[id] = Rendered(id, fields)
              /\ UNCHANGED <<handoffs, submitDisabled, successTimers,
                             successMsgs, fields>> ]_vars
    /\ []((currentStep = totalSteps \/ focusTextarea) =>
              ~ENABLED (KeyCtrlEnter /\ vars' # vars))

\* step 3 was entered, and the review refreshed, while no step container was
\* displayed: no button could be clicked, the navigation came from the keyboard
C19_Witness ==
    /\ currentStep = 3
    /\ active = {}
    /\ navTimers = << <<"show", 0>>, <<"hide", 2>>, <<"show", 0>> >>
    /\ \A id \in FieldIds : review[id] = Rendered(id, fields)

(***************************************************************************)
(* Save and load                                                           *)
(*                                                                         *)
(* SpecLoad applies saveFormData and loadFormData to a form at any step,   *)
(* with no backup or with the backup of an earlier state of the form, in   *)
(* which the user had entered other values.                                *)
(***************************************************************************)
\* loadFormData: with a backup, every saved value that is non-empty is put
\* into its control and the badge of a saved priority is selected
loadFormData ==
    IF formDataBackup = NoBackup
    THEN UNCHANGED <<fields, activeBadges>>
    ELSE LET saved == formDataBackup.values
         IN  /\ fields' = [id \in FieldIds |->
                              IF saved[id] # Empty THEN saved[id] ELSE fields[id]]
             /\ activeBadges' = IF saved["priority"] \in BadgeValues
                                THEN {saved["priority"]}
                                ELSE activeBadges

\* loadFormData that also takes currentStep from the backup
LoadFormDataRestoresStep ==
    /\ loadFormData
    /\ currentStep' = IF formDataBackup = NoBackup
                      THEN currentStep
                      ELSE formDataBackup.currentStep
    /\ UNCHANGED <<active, navTimers, errorMsgs, errTimers, review,
                   submitDisabled, handoffs, successTimers, successMsgs,
                   formDataBackup, focusTextarea>>

\* a call of form.loadFormData()
LoadFormData ==
    /\ loadFormData
    /\ UNCHANGED <<currentStep, active, navTimers, errorMsgs, errTimers, review,
                   submitDisabled, handoffs, successTimers, successMsgs,
                   formDataBackup, focusTextarea>>

\* the values of the form now
CurrentForm ==
    [ValidForm EXCEPT !["phone"] = <<"1">>]

\* the values the user had entered when the backup was taken
EarlierForm ==
    [name |-> JaneDoe, email |-> <<"x", "@", "y", ".", "z">>, phone |-> Empty,
     company |-> <<"C">>, recordType |-> <<"Q">>, type |-> <<"U">>,
     reason |-> <<"K">>, priority |-> <<"L">>, subject |-> <<"e">>,
     description |-> NineChars]

LoadIds == {"name", "phone", "recordType", "priority", "description"}

Subforms(form) ==
    {[id \in FieldIds |-> IF id \in LoadIds \ cleared THEN form[id] ELSE Empty] :
        cleared \in SUBSET LoadIds}

InitLoad ==
    /\ currentStep \in 1..totalSteps
    /\ fields \in Subforms(CurrentForm)
    /\ active = {currentStep}
    /\ navTimers = << >>
    /\ errorMsgs = << >>
    /\ errTimers = << >>
    /\ activeBadges = IF fields["priority"] = Empty
                      THEN {}
                      ELSE {fields["priority"]}
    /\ review = NoReview
    /\ submitDisabled = FALSE
    /\ handoffs = 0
    /\ successTimers = 0
    /\ successMsgs = 0
    /\ formDataBackup \in
           {NoBackup} \cup
           {saveFormData(form, step) :
               form \in Subforms(EarlierForm), step \in 1..totalSteps}
    /\ focusTextarea = FALSE

NextLoad ==
    \/ Autosave
    \/ LoadFormData

SpecLoad == InitLoad /\ [][NextLoad]_vars

\* C20: loadFormData without a backup changes nothing; loadFormData on the
\* backup that saveFormData has just taken leaves every control value, the
\* priority and its badge as they were before the save; and loadFormData
\* never changes currentStep, whatever step the backup records.
C20_SaveLoadRoundTrip ==
    [][ LoadFormData =>
          /\ formDataBackup = NoBackup => UNCHANGED vars
          /\ formDataBackup = saveFormData(fields, currentStep) =>
                 UNCHANGED <<fields, activeBadges>>
          /\ currentStep' = currentStep ]_vars

\* values of the earlier form have been loaded over the current ones, the
\* backup records step 3 and currentStep is still 1
C20_Witness ==
    /\ fields["name"] = JaneDoe
    /\ fields["priority"] = <<"L">>
    /\ activeBadges = {<<"L">>}
    /\ fields["phone"] = <<"1">>
    /\ formDataBackup.currentStep = 3
    /\ currentStep = 1

====
